---- MODULE Spec2Model ----
(***************************************************************************)
(* Small-step semantics of SIMPLE (src/src/lib.rs): the Element AST, the   *)
(* reducibility predicate, the value projection, the one-step reducer and  *)
(* the Machine that drives it against one environment.                     *)
(*                                                                         *)
(* Numbers are modelled as mathematical integers; every input and every    *)
(* intermediate result of the bounded programs stays far inside i64, so    *)
(* the overflow behaviour of `+` and `*` is outside what is checked here.  *)
(* The text written by println! in Machine::run is not modelled.           *)
(***************************************************************************)
EXTENDS Integers, FiniteSets, Sequences, TLC

(* ------------------------------ bounds --------------------------------- *)

\* numbers occurring in the enumerated initial terms are -MaxNum..MaxNum
MaxNum == 1

Nums == (0 - MaxNum)..MaxNum

\* variable names occurring in the enumerated terms and stores
Names == {"x", "y"}

(* ------------------------- enum Element (AST) -------------------------- *)

Number(n) == [tag |-> "Number", val |-> n]

Boolean(v) == [tag |-> "Boolean", b |-> v]

Variable(v) == [tag |-> "Variable", name |-> v]

Add(left, right) == [tag |-> "Add", l |-> left, r |-> right]

Multiply(left, right) == [tag |-> "Multiply", l |-> left, r |-> right]

LessThan(left, right) == [tag |-> "LessThan", l |-> left, r |-> right]

Assign(n, e) == [tag |-> "Assign", name |-> n, expr |-> e]

Sequence(f, s) == [tag |-> "Sequence", first |-> f, second |-> s]

IfElse(c, t, e) == [tag |-> "IfElse", cond |-> c, cons |-> t, alt |-> e]

While(c, b) == [tag |-> "While", cond |-> c, body |-> b]

DoNothing == [tag |-> "DoNothing"]

(* ------------------------ Element::is_reducible ------------------------ *)

\* is_reducible with the IfElse arm answering false
is_reducible_IfElseTerminal(e) ==
    e.tag \notin {"Number", "Boolean", "DoNothing", "IfElse"}

\* is_reducible with the Variable arm answering false
is_reducible_VariableTerminal(e) ==
    e.tag \notin {"Number", "Boolean", "DoNothing", "Variable"}

is_reducible(e) ==
    CASE e.tag = "Number" -> FALSE
      [] e.tag = "Boolean" -> FALSE
      [] e.tag = "DoNothing" -> FALSE
      [] e.tag = "Add" -> TRUE
      [] e.tag = "Multiply" -> TRUE
      [] e.tag = "LessThan" -> TRUE
      [] e.tag = "Variable" -> TRUE
      [] e.tag = "Assign" -> TRUE
      [] e.tag = "Sequence" -> TRUE
      [] e.tag = "IfElse" -> TRUE
      [] e.tag = "While" -> TRUE

(* ---------------------------- Element::value --------------------------- *)

\* outcome of a call that panics
Panic(msg, env) == [ok |-> FALSE, err |-> msg, env |-> env]

\* outcome of a reduce call that returns term t and leaves the environment env
Ok(t, env) == [ok |-> TRUE, term |-> t, env |-> env]

\* value refusing Boolean as well
value_BooleanMismatch(e) ==
    CASE e.tag = "Number" -> [ok |-> TRUE, val |-> e.val]
      [] OTHER -> [ok |-> FALSE, err |-> "type mismatch in value"]

\* value with DoNothing projected to 0 instead of panicking
value_DoNothingIsZero(e) ==
    CASE e.tag = "Number" -> [ok |-> TRUE, val |-> e.val]
      [] e.tag = "Boolean" -> [ok |-> TRUE, val |-> IF e.b THEN 1 ELSE 0]
      [] OTHER -> [ok |-> TRUE, val |-> 0]

value(e) ==
    CASE e.tag = "Number" -> [ok |-> TRUE, val |-> e.val]
      [] e.tag = "Boolean" -> [ok |-> TRUE, val |-> IF e.b THEN 1 ELSE 0]
      [] OTHER -> [ok |-> FALSE, err |-> "type mismatch in value"]

(* ------------------------ HashMap get / insert ------------------------- *)

contains_key(env, k) == k \in DOMAIN env

insert(env, k, v) == [n \in (DOMAIN env) \cup {k} |-> IF n = k THEN v ELSE env[n]]

(* ---------------------------- Element::reduce -------------------------- *)

BinaryTags == {"Add", "Multiply", "LessThan"}

\* Arith with LessThan computed as less-or-equal
Arith_LessOrEqual(e, env) ==
    LET lv == value(e.l)
        rv == value(e.r)
    IN  IF ~lv.ok THEN Panic(lv.err, env)
        ELSE IF ~rv.ok THEN Panic(rv.err, env)
        ELSE CASE e.tag = "Add" -> Ok(Number(lv.val + rv.val), env)
               [] e.tag = "Multiply" -> Ok(Number(lv.val * rv.val), env)
               [] e.tag = "LessThan" -> Ok(Boolean(lv.val <= rv.val), env)

\* the arm of a binary operator whose operands are both irreducible
Arith(e, env) ==
    LET lv == value(e.l)
        rv == value(e.r)
    IN  IF ~lv.ok THEN Panic(lv.err, env)
        ELSE IF ~rv.ok THEN Panic(rv.err, env)
        ELSE CASE e.tag = "Add" -> Ok(Number(lv.val + rv.val), env)
               [] e.tag = "Multiply" -> Ok(Number(lv.val * rv.val), env)
               [] e.tag = "LessThan" -> Ok(Boolean(lv.val < rv.val), env)

\* BinaryTarget with the two tests swapped: the right operand goes first
BinaryTarget_RightFirst(e) ==
    IF is_reducible(e.r) THEN "r"
    ELSE IF is_reducible(e.l) THEN "l"
    ELSE "none"

\* which operand of a binary operator the if / else-if chain descends into
BinaryTarget(e) ==
    IF is_reducible(e.l) THEN "l"
    ELSE IF is_reducible(e.r) THEN "r"
    ELSE "none"

\* rebuild a binary node of the same variant as e
Rebuild(e, left, right) == [tag |-> e.tag, l |-> left, r |-> right]

\* a panic in a recursive call unwinds through the caller; otherwise the
\* caller wraps the returned child into t
Lift(sub, t) == IF sub.ok THEN Ok(t, sub.env) ELSE sub

\* the Variable arm leaving an unbound variable unresolved
reduce_Variable_MissKeeps(e, env) ==
    IF contains_key(env, e.name) THEN Ok(env[e.name], env)
    ELSE Ok(e, env)

\* the Variable arm with a lookup miss raised as an error
reduce_Variable_MissPanics(e, env) ==
    IF contains_key(env, e.name) THEN Ok(env[e.name], env)
    ELSE Panic("unbound variable", env)

\* the Variable arm with a lookup miss cached in the store
reduce_Variable_MissInserts(e, env) ==
    IF contains_key(env, e.name) THEN Ok(env[e.name], env)
    ELSE Ok(DoNothing, insert(env, e.name, DoNothing))

\* Element::Variable arm
reduce_Variable(e, env) ==
    IF contains_key(env, e.name) THEN Ok(env[e.name], env)
    ELSE Ok(DoNothing, env)

\* the storing Assign arm rejecting DoNothing, but only after the insert
reduce_AssignStore_CheckAfterInsert(e, env) ==
    IF e.expr.tag = "DoNothing"
    THEN Panic("type mismatch in assign", insert(env, e.name, e.expr))
    ELSE Ok(DoNothing, insert(env, e.name, e.expr))

\* the storing Assign arm keeping an existing binding (insert-if-absent)
reduce_AssignStore_KeepExisting(e, env) ==
    IF contains_key(env, e.name) THEN Ok(DoNothing, env)
    ELSE Ok(DoNothing, insert(env, e.name, e.expr))

\* Element::Assign arm, expression not reducible
reduce_AssignStore(e, env) == Ok(DoNothing, insert(env, e.name, e.expr))

\* the first Sequence pattern matching every irreducible first component
SequenceMatchesDoNothing_AnyTerminal(e) == ~is_reducible(e.first)

\* which of the two Sequence patterns matches
SequenceMatchesDoNothing(e) == e.first = DoNothing

\* IfElseArm with the two Boolean patterns selecting the wrong branch
IfElseArm_Swapped(e) ==
    IF e.cond = Boolean(TRUE) THEN "alt"
    ELSE IF e.cond = Boolean(FALSE) THEN "cons"
    ELSE IF is_reducible(e.cond) THEN "cond"
    ELSE "panic"

\* IfElseArm with every irreducible condition other than true taken as false
IfElseArm_Falsy(e) ==
    IF e.cond = Boolean(TRUE) THEN "cons"
    ELSE IF is_reducible(e.cond) THEN "cond"
    ELSE "alt"

\* which of the three IfElse patterns (and which branch of the third) applies
IfElseArm(e) ==
    IF e.cond = Boolean(TRUE) THEN "cons"
    ELSE IF e.cond = Boolean(FALSE) THEN "alt"
    ELSE IF is_reducible(e.cond) THEN "cond"
    ELSE "panic"

\* the While arm unrolled without the loop behind the body
reduce_While_Once(e, env) ==
    Ok(IfElse(e.cond, e.body, DoNothing), env)

\* the While arm with a shortcut for a condition that is already false
reduce_While_Shortcut(e, env) ==
    IF e.cond = Boolean(FALSE) THEN Ok(DoNothing, env)
    ELSE Ok(IfElse(e.cond, Sequence(e.body, e), DoNothing), env)

\* Element::While arm
reduce_While(e, env) ==
    Ok(IfElse(e.cond, Sequence(e.body, e), DoNothing), env)

\* the DoNothing arm left to the wildcard arm
reduce_DoNothing_Panics(e, env) == Panic("type mismatch in reduce", env)

\* Element::DoNothing arm
reduce_DoNothing(e, env) == Ok(DoNothing, env)

\* the wildcard arm coercing a Boolean to its number
reduce_CatchAll_Coerce(e, env) ==
    IF e.tag = "Boolean" THEN Ok(Number(IF e.b THEN 1 ELSE 0), env)
    ELSE Panic("type mismatch in reduce", env)

\* the wildcard arm: Number and Boolean end here
reduce_CatchAll(e, env) == Panic("type mismatch in reduce", env)

RECURSIVE reduce(_, _)
reduce(e, env) ==
    CASE e.tag \in BinaryTags ->
            LET target == BinaryTarget(e)
            IN  IF target = "l"
                THEN LET sub == reduce(e.l, env)
                     IN  Lift(sub, Rebuild(e, sub.term, e.r))
                ELSE IF target = "r"
                THEN LET sub == reduce(e.r, env)
                     IN  Lift(sub, Rebuild(e, e.l, sub.term))
                ELSE Arith(e, env)
      [] e.tag = "Variable" -> reduce_Variable(e, env)
      [] e.tag = "Assign" ->
            IF is_reducible(e.expr)
            THEN LET sub == reduce(e.expr, env)
                 IN  Lift(sub, Assign(e.name, sub.term))
            ELSE reduce_AssignStore(e, env)
      [] e.tag = "Sequence" ->
            IF SequenceMatchesDoNothing(e) THEN Ok(e.second, env)
            ELSE LET sub == reduce(e.first, env)
                 IN  Lift(sub, Sequence(sub.term, e.second))
      [] e.tag = "IfElse" ->
            LET arm == IfElseArm(e)
            IN  IF arm = "cons" THEN Ok(e.cons, env)
                ELSE IF arm = "alt" THEN Ok(e.alt, env)
                ELSE IF arm = "cond"
                THEN LET sub == reduce(e.cond, env)
                     IN  Lift(sub, IfElse(sub.term, e.cons, e.alt))
                ELSE Panic("Condition in if not reducible (but not bool)", env)
      [] e.tag = "While" -> reduce_While(e, env)
      [] e.tag = "DoNothing" -> reduce_DoNothing(e, env)
      [] OTHER -> reduce_CatchAll(e, env)

(* --------------------------- initial programs -------------------------- *)

Terminals == {Number(n) : n \in Nums} \cup {Boolean(TRUE), Boolean(FALSE), DoNothing}

Atoms == Terminals \cup {Variable(v) : v \in Names}

\* every Element built from one constructor over the children in S
Build(S) ==
    {Add(a, b) : a \in S, b \in S}
    \cup {Multiply(a, b) : a \in S, b \in S}
    \cup {LessThan(a, b) : a \in S, b \in S}
    \cup {Assign(v, a) : v \in Names, a \in S}
    \cup {Sequence(a, b) : a \in S, b \in S}
    \cup {IfElse(a, b, c) : a \in S, b \in S, c \in S}
    \cup {While(a, b) : a \in S, b \in S}

\* all terms of depth at most one
Terms1 == Atoms \cup Build(Atoms)

\* representative children for the terms of depth two: every kind of
\* terminal, a variable, and children that reduce, write the store, or panic
Small ==
    { Number(1), Boolean(TRUE), Boolean(FALSE), DoNothing, Variable("x"),
      Add(Number(1), Number(1)), Multiply(Boolean(TRUE), DoNothing),
      LessThan(Variable("x"), Number(1)), Assign("x", Number(0)),
      Assign("y", Variable("x")), IfElse(Number(1), DoNothing, DoNothing) }

Terms2 == Build(Small)

\* the program of test_expression_with_assignment_and_variables_runs
ProgAssignVars ==
    Sequence(Assign("x", Number(3)),
             Assign("res", Add(Add(Number(38), Variable("x")), Variable("y"))))

\* the program of test_expression_with_assignment_and_if
ProgAssignIf ==
    Sequence(Assign("x", Boolean(FALSE)),
             IfElse(Variable("x"), Assign("y", Number(1)), Assign("y", Number(42))))

\* the program of test_while_loops
ProgWhileAdd ==
    While(LessThan(Variable("x"), Number(2)),
          Assign("x", Add(Variable("x"), Number(1))))

\* the programs of the test suite (lib.rs:289-293, 441-445, 521-527, 587-590)
Examples ==
    { ProgAssignVars, ProgAssignIf,
      Add(Multiply(Number(1), Number(2)), Multiply(Number(3), Number(4))),
      Sequence(DoNothing, Add(Number(1), Number(2))),
      IfElse(LessThan(Number(1), Number(2)), Number(1), Number(2)),
      ProgWhileAdd }

InitTerms == Terms1 \cup Terms2 \cup Examples

\* the loop of test_while_loops_fully_with_machine (lib.rs:620-627) with the
\* limit n in place of 5
LoopTerm(n) ==
    While(LessThan(Variable("x"), Number(n)),
          Assign("x", Multiply(Variable("x"), Number(3))))

\* the limits and the initial values of x the loop is started with
MaxLimit == 10

MaxStart == 3

LoopTerms == {LoopTerm(n) : n \in 0..MaxLimit}

\* values held by the enumerated initial stores
StoreVals == {Number(1), Boolean(FALSE), DoNothing}

Stores == UNION {[D -> StoreVals] : D \in SUBSET Names}

LoopStores == {[k \in {"x"} |-> Number(a)] : a \in 1..MaxStart}

(* ------------------------------- Machine ------------------------------- *)

\* expression, environment: the fields of Machine
\* pc: where the owner of the machine is ("ready": constructed, no call in
\*     progress; "running": inside run; "done": run returned; "panicked")
\* err: the message of the panic that aborted the program, "" if none
\* prev: the configuration the last call of step started from
\* start: the arguments the machine was constructed with
VARIABLES expression, environment, pc, err, prev, start

vars == <<expression, environment, pc, err, prev, start>>

\* Machine::new / Machine::new_with_empty_env
Constructed ==
    /\ pc = "ready"
    /\ err = ""
    /\ prev = [stepped |-> FALSE, expression |-> expression, environment |-> environment]
    /\ start = [expression |-> expression, environment |-> environment]

\* a machine constructed with the loop program and a store holding x
LoopInit ==
    /\ expression \in LoopTerms
    /\ environment \in LoopStores
    /\ Constructed

Init ==
    \/ /\ expression \in InitTerms
       /\ environment \in Stores
       /\ Constructed
    \/ LoopInit

\* step reducing against a clone of the environment, which is then dropped
DoStep_OnClone(next) ==
    LET res == reduce(expression, environment)
    IN  /\ prev' = [stepped |-> TRUE, expression |-> expression, environment |-> environment]
        /\ start' = start
        /\ environment' = environment
        /\ IF res.ok
           THEN /\ expression' = res.term
                /\ pc' = next
                /\ err' = err
           ELSE /\ expression' = expression
                /\ pc' = "panicked"
                /\ err' = res.err

\* the effect of Machine::step on the machine, with pc = next when it returns
DoStep(next) ==
    LET res == reduce(expression, environment)
    IN  /\ prev' = [stepped |-> TRUE, expression |-> expression, environment |-> environment]
        /\ start' = start
        /\ environment' = res.env
        /\ IF res.ok
           THEN /\ expression' = res.term
                /\ pc' = next
                /\ err' = err
           ELSE /\ expression' = expression
                /\ pc' = "panicked"
                /\ err' = res.err

\* a direct call of Machine::step by the owner of the machine
Step ==
    /\ pc = "ready"
    /\ DoStep("ready")

\* the owner calls Machine::run
RunEnter ==
    /\ pc = "ready"
    /\ pc' = "running"
    /\ UNCHANGED <<expression, environment, err, prev, start>>

\* one iteration of the while loop of Machine::run
RunStep ==
    /\ pc = "running"
    /\ is_reducible(expression)
    /\ DoStep("running")

\* the loop condition of Machine::run is false: run returns
RunExit ==
    /\ pc = "running"
    /\ ~is_reducible(expression)
    /\ pc' = "done"
    /\ UNCHANGED <<expression, environment, err, prev, start>>

Next == Step \/ RunEnter \/ RunStep \/ RunExit

Spec == Init /\ [][Next]_vars

\* run is a loop without suspension points: once entered it keeps iterating
\* until its condition fails or a step panics
FairSpec == Init /\ [][Next]_vars /\ WF_vars(RunStep) /\ WF_vars(RunExit)

LoopSpec == LoopInit /\ [][Next]_vars /\ WF_vars(RunStep) /\ WF_vars(RunExit)

(* ------------------------------ properties ----------------------------- *)

TerminalTags == {"Number", "Boolean", "DoNothing"}

\* the last call of step started from a term of variant t
Stepped(t) == prev.stepped /\ prev.expression.tag = t

\* the last call of step returned / panicked
Returned == prev.stepped /\ pc # "panicked"

Panicked == prev.stepped /\ pc = "panicked"

\* the subterm at which the single rewrite of one reduce call applies
RECURSIVE Redex(_)
Redex(e) ==
    CASE e.tag \in BinaryTags ->
            IF e.l.tag \notin TerminalTags THEN Redex(e.l)
            ELSE IF e.r.tag \notin TerminalTags THEN Redex(e.r)
            ELSE e
      [] e.tag = "Assign" ->
            IF e.expr.tag \notin TerminalTags THEN Redex(e.expr) ELSE e
      [] e.tag = "Sequence" ->
            IF e.first.tag \notin TerminalTags THEN Redex(e.first) ELSE e
      [] e.tag = "IfElse" ->
            IF e.cond.tag \notin TerminalTags THEN Redex(e.cond) ELSE e
      [] OTHER -> e

\* the ill-typed shapes: an operator over DoNothing, a condition that is a
\* Number or DoNothing, a Sequence whose first component is a Number or Boolean
IllTyped(e) ==
    \/ e.tag \in BinaryTags /\ (e.l.tag = "DoNothing" \/ e.r.tag = "DoNothing")
    \/ e.tag = "IfElse" /\ e.cond.tag \in {"Number", "DoNothing"}
    \/ e.tag = "Sequence" /\ e.first.tag \in {"Number", "Boolean"}

\* C1 (as stated): every call of reduce on a reducible term returns a
\* successor term, it never fails.
C1_TotalOnReducible ==
    (prev.stepped /\ prev.expression.tag \notin TerminalTags) => pc # "panicked"

\* C1 (amended): a call of reduce on a reducible term returns a successor
\* term unless the subterm its single rewrite applies to is ill-typed, and
\* in exactly that case it fails.
C1_TotalUnlessIllTyped ==
    (prev.stepped /\ prev.expression.tag \notin TerminalTags) =>
        (pc = "panicked" <=> IllTyped(Redex(prev.expression)))

\* a step from a reducible term with a nested redex returned a successor
C1_Witness ==
    /\ Returned
    /\ prev.expression.tag = "Assign"
    /\ prev.expression.expr.tag = "Add"
    /\ expression.tag = "Assign"
    /\ expression.expr.tag = "Number"

\* C2: run calls step only while the current term is reducible, and when
\* run returns the current term is a Number, a Boolean or DoNothing.
C2_RunStepsUntilTerminal ==
    [][ /\ (pc = "running" /\ pc' # "done") => expression.tag \notin TerminalTags
        /\ (pc' = "done") => expression'.tag \in TerminalTags ]_vars

\* run returned after having stepped a reducible term to a terminal one
C2_Witness ==
    /\ pc = "done"
    /\ prev.stepped
    /\ prev.expression.tag \notin TerminalTags
    /\ expression.tag \in TerminalTags

\* C3: is_reducible is false exactly for Number, Boolean and DoNothing and
\* true for every other variant, whatever the children are.
C3_ReducibleIffNotTerminal ==
    /\ is_reducible(expression) <=> expression.tag \notin TerminalTags
    /\ is_reducible(prev.expression) <=> prev.expression.tag \notin TerminalTags

\* run found a While with reducible children reducible, and later a
\* terminal term irreducible
C3_Witness ==
    /\ pc = "running"
    /\ expression.tag = "While"
    /\ expression.cond.tag = "LessThan"
    /\ expression.body.tag = "Assign"

\* C4: one reduce of Add, Multiply or LessThan rewrites the left operand if
\* it is reducible (right operand unchanged), else the right operand if it is
\* reducible (left unchanged), else computes the result from the two values;
\* a failure of the recursive call or of value is the failure of the call.
\* Add(Multiply(1,2), Multiply(3,4)) passes through Add(2, Multiply(3,4)),
\* Add(2,12) and 14.
C4_LeftToRightOneRewrite ==
    /\ (prev.stepped /\ prev.expression.tag \in BinaryTags) =>
        LET p == prev.expression
            env == prev.environment
        IN  IF p.l.tag \notin TerminalTags
            THEN LET sub == reduce(p.l, env)
                 IN  IF sub.ok
                     THEN /\ Returned
                          /\ expression = [tag |-> p.tag, l |-> sub.term, r |-> p.r]
                          /\ environment = sub.env
                     ELSE Panicked
            ELSE IF p.r.tag \notin TerminalTags
            THEN LET sub == reduce(p.r, env)
                 IN  IF sub.ok
                     THEN /\ Returned
                          /\ expression = [tag |-> p.tag, l |-> p.l, r |-> sub.term]
                          /\ environment = sub.env
                     ELSE Panicked
            ELSE IF value(p.l).ok /\ value(p.r).ok
            THEN /\ Returned
                 /\ environment = env
                 /\ p.tag = "Add" =>
                      expression = [tag |-> "Number", val |-> value(p.l).val + value(p.r).val]
                 /\ p.tag = "Multiply" =>
                      expression = [tag |-> "Number", val |-> value(p.l).val * value(p.r).val]
                 /\ p.tag = "LessThan" =>
                      expression = [tag |-> "Boolean", b |-> value(p.l).val < value(p.r).val]
            ELSE Panicked
    /\ (prev.stepped /\ prev.expression =
            Add(Multiply(Number(1), Number(2)), Multiply(Number(3), Number(4)))) =>
        expression = Add(Number(2), Multiply(Number(3), Number(4)))
    /\ (prev.stepped /\ prev.expression = Add(Number(2), Multiply(Number(3), Number(4)))) =>
        expression = Add(Number(2), Number(12))
    /\ (prev.stepped /\ prev.expression = Add(Number(2), Number(12))) =>
        expression = Number(14)

\* the third step of the example: 2 + 12 became 14
C4_Witness ==
    /\ Returned
    /\ prev.expression = Add(Number(2), Number(12))
    /\ expression = Number(14)

\* the binding of name k is the same in stores a and b
SameBinding(a, b, k) ==
    /\ k \in DOMAIN a <=> k \in DOMAIN b
    /\ k \in DOMAIN a => a[k] = b[k]

\* the terminal case of Assign: name is bound to expr, nothing else changes
AssignStores(p, env) ==
    /\ Returned
    /\ expression = DoNothing
    /\ DOMAIN environment = DOMAIN env \cup {p.name}
    /\ environment[p.name] = p.expr
    /\ \A k \in DOMAIN env \ {p.name} : environment[k] = env[k]

\* C5 (as stated): reducing Assign(name, expr) with expr reducible gives
\* Assign(name, reduce(expr)) and the binding of name is what it was before
\* the step; with expr terminal the store afterwards maps name to expr, every
\* other key keeps its value, and the result is DoNothing.
C5_AssignNoNewBinding ==
    Stepped("Assign") =>
        LET p == prev.expression
            env == prev.environment
        IN  IF p.expr.tag \notin TerminalTags
            THEN LET sub == reduce(p.expr, env)
                 IN  IF sub.ok
                     THEN /\ Returned
                          /\ expression = Assign(p.name, sub.term)
                          /\ SameBinding(environment, env, p.name)
                     ELSE Panicked
            ELSE AssignStores(p, env)

\* C5 (amended): with expr reducible the result is Assign(name, reduce(expr))
\* and the store is exactly the store reduce(expr) leaves: the Assign being
\* reduced writes nothing itself.  The terminal case is as stated.
C5_AssignStoreFromExpr ==
    Stepped("Assign") =>
        LET p == prev.expression
            env == prev.environment
        IN  IF p.expr.tag \notin TerminalTags
            THEN LET sub == reduce(p.expr, env)
                 IN  IF sub.ok
                     THEN /\ Returned
                          /\ expression = Assign(p.name, sub.term)
                          /\ environment = sub.env
                     ELSE Panicked
            ELSE AssignStores(p, env)

\* an assignment overwrote an earlier binding of its name
C5_Witness ==
    /\ Returned
    /\ prev.expression.tag = "Assign"
    /\ prev.expression.expr.tag = "Number"
    /\ prev.expression.name \in DOMAIN prev.environment
    /\ prev.environment[prev.expression.name] # prev.expression.expr
    /\ environment[prev.expression.name] = prev.expression.expr
    /\ expression = DoNothing

\* C6: reducing Variable(name) returns the stored term when the store has
\* the key and DoNothing when it has not; the store is unchanged and no
\* error is raised.
C6_VariableLookup ==
    Stepped("Variable") =>
        /\ Returned
        /\ err = ""
        /\ environment = prev.environment
        /\ prev.expression.name \in DOMAIN prev.environment =>
             expression = prev.environment[prev.expression.name]
        /\ prev.expression.name \notin DOMAIN prev.environment =>
             expression = [tag |-> "DoNothing"]

\* a lookup of a name the store does not have returned DoNothing
C6_Witness ==
    /\ Returned
    /\ prev.expression.tag = "Variable"
    /\ prev.expression.name \notin DOMAIN prev.environment
    /\ "y" \in DOMAIN prev.environment
    /\ expression = DoNothing

\* a non-stuttering transition made by Machine::step
StepTaken == pc \in {"ready", "running"} /\ pc' \in {pc, "panicked"}

\* C7: reducing Sequence(DoNothing, second) yields second itself; reducing
\* Sequence(first, second) with first not DoNothing yields
\* Sequence(reduce(first), second), failing when reduce(first) fails; so the
\* second component stays what it was as long as the first is not DoNothing.
C7_SequenceFirstBeforeSecond ==
    [][ (StepTaken /\ expression.tag = "Sequence") =>
          IF expression.first = [tag |-> "DoNothing"]
          THEN /\ pc' # "panicked"
               /\ expression' = expression.second
               /\ environment' = environment
          ELSE LET sub == reduce(expression.first, environment)
               IN  IF sub.ok
                   THEN /\ pc' # "panicked"
                        /\ expression'.tag = "Sequence"
                        /\ expression'.first = sub.term
                        /\ expression'.second = expression.second
                        /\ environment' = sub.env
                   ELSE pc' = "panicked" /\ expression' = expression ]_vars

\* Sequence(DoNothing, second) with a reducible second returned second
C7_Witness ==
    /\ Returned
    /\ prev.expression.tag = "Sequence"
    /\ prev.expression.first = DoNothing
    /\ prev.expression.second.tag \notin TerminalTags
    /\ expression = prev.expression.second

\* C8: reducing IfElse(cond, cons, alt) returns cons for cond = true and alt
\* for cond = false, unreduced; with cond reducible it returns
\* IfElse(reduce(cond), cons, alt).  IfElse(LessThan(1,2), 1, 2) becomes
\* IfElse(true, 1, 2) and then Number(1).
C8_IfElseSelectsBranch ==
    /\ Stepped("IfElse") =>
        LET p == prev.expression
            env == prev.environment
        IN  IF p.cond = [tag |-> "Boolean", b |-> TRUE]
            THEN Returned /\ expression = p.cons /\ environment = env
            ELSE IF p.cond = [tag |-> "Boolean", b |-> FALSE]
            THEN Returned /\ expression = p.alt /\ environment = env
            ELSE IF p.cond.tag \notin TerminalTags
            THEN LET sub == reduce(p.cond, env)
                 IN  IF sub.ok
                     THEN /\ Returned
                          /\ expression =
                               [tag |-> "IfElse", cond |-> sub.term,
                                cons |-> p.cons, alt |-> p.alt]
                          /\ environment = sub.env
                     ELSE Panicked
            ELSE TRUE
    /\ (prev.stepped /\ prev.expression =
            IfElse(LessThan(Number(1), Number(2)), Number(1), Number(2))) =>
        expression = IfElse(Boolean(TRUE), Number(1), Number(2))
    /\ (prev.stepped /\ prev.expression = IfElse(Boolean(TRUE), Number(1), Number(2))) =>
        expression = Number(1)

\* a true condition selected a reducible consequence, which was returned
\* unreduced
C8_Witness ==
    /\ Returned
    /\ prev.expression.tag = "IfElse"
    /\ prev.expression.cond = Boolean(TRUE)
    /\ prev.expression.cons.tag = "Assign"
    /\ prev.expression.alt # prev.expression.cons
    /\ expression = prev.expression.cons

\* C9: reducing While(cond, body) yields
\* IfElse(cond, Sequence(body, While(cond, body)), DoNothing) whatever the
\* store and cond are, with cond and body copied and the store unchanged.
C9_WhileUnrolls ==
    Stepped("While") =>
        /\ Returned
        /\ expression =
             [tag |-> "IfElse", cond |-> prev.expression.cond,
              cons |-> [tag |-> "Sequence", first |-> prev.expression.body,
                        second |-> prev.expression],
              alt |-> [tag |-> "DoNothing"]]
        /\ environment = prev.environment

\* a While whose condition is already false was unrolled all the same
C9_Witness ==
    /\ Returned
    /\ prev.expression.tag = "While"
    /\ prev.expression.cond = Boolean(FALSE)
    /\ expression.tag = "IfElse"
    /\ expression.cons.second = prev.expression

\* C10: reducing IfElse(cond, cons, alt) with cond a Number or DoNothing
\* fails with the panic of the IfElse arm instead of selecting a branch, and
\* the store is unchanged.
C10_IfElseNonBooleanFails ==
    (Stepped("IfElse") /\ prev.expression.cond.tag \in {"Number", "DoNothing"}) =>
        /\ pc = "panicked"
        /\ err = "Condition in if not reducible (but not bool)"
        /\ environment = prev.environment
        /\ expression = prev.expression

\* an IfElse over a Number condition panicked
C10_Witness ==
    /\ Panicked
    /\ prev.expression.tag = "IfElse"
    /\ prev.expression.cond.tag = "Number"
    /\ err = "Condition in if not reducible (but not bool)"

\* C11: every value in the store is a Number, a Boolean or DoNothing after
\* any sequence of steps from a store of terminal values.
C11_StoreHoldsTerminals ==
    \A k \in DOMAIN environment : environment[k].tag \in TerminalTags

\* an assignment whose value had to be reduced first has written the store
C11_Witness ==
    /\ Returned
    /\ start.expression.tag = "Assign"
    /\ start.expression.expr.tag \notin TerminalTags
    /\ expression = DoNothing
    /\ start.expression.name \in DOMAIN environment
    /\ environment # start.environment

\* the rewrite of the last step was the storing arm of Assign
AssignFired == Redex(prev.expression).tag = "Assign" /\ pc # "panicked"

\* C12: a reduce call changes the store only when the rule it fires is
\* Assign with a terminal value, and then it writes exactly that key; every
\* other call leaves the store identical; the key set never shrinks.
C12_OnlyAssignWrites ==
    prev.stepped =>
        LET rx == Redex(prev.expression)
            env == prev.environment
        IN  /\ DOMAIN env \subseteq DOMAIN environment
            /\ IF AssignFired
               THEN /\ DOMAIN environment = DOMAIN env \cup {rx.name}
                    /\ environment[rx.name] = rx.expr
                    /\ \A k \in DOMAIN env \ {rx.name} : environment[k] = env[k]
               ELSE environment = env

\* a step that recursed into the first component of a Sequence fired an
\* Assign there and added a key
C12_Witness ==
    /\ Returned
    /\ prev.expression.tag = "Sequence"
    /\ prev.expression.first.tag = "Assign"
    /\ prev.expression.first.name \notin DOMAIN prev.environment
    /\ DOMAIN environment = DOMAIN prev.environment \cup {prev.expression.first.name}
    /\ DOMAIN prev.environment # {}

\* the machine was constructed with program t and store env
StartedWith(t, env) == start.expression = t /\ start.environment = env

\* C13: the store persists across the steps of one machine: a binding
\* written by an Assign is in the store the next step starts from, every
\* other key keeps its value from step to step, and a Variable lookup
\* returns the binding the store holds at that step.  For store {y: 1} the
\* program x = 3; res = 38 + x + y ends with x = 3, y = 1, res = 42, and for
\* the empty store x = false; if (x) [ y = 1 ] else [ y = 42 ] ends with
\* x = false, y = 42.
C13_StorePersists ==
    /\ [][ (StepTaken /\ pc' # "panicked") =>
             LET rx == Redex(expression)
             IN  /\ rx.tag = "Assign" =>
                      /\ rx.name \in DOMAIN environment'
                      /\ environment'[rx.name] = rx.expr
                 /\ \A k \in DOMAIN environment :
                      \/ rx.tag = "Assign" /\ rx.name = k
                      \/ k \in DOMAIN environment' /\ environment'[k] = environment[k]
                 /\ (expression.tag = "Variable" /\ expression.name \in DOMAIN environment) =>
                      expression' = environment[expression.name] ]_vars
    /\ [](StartedWith(ProgAssignVars, [k \in {"y"} |-> Number(1)]) =>
            /\ pc # "panicked"
            /\ (prev.stepped /\ prev.expression = ProgAssignVars.second) =>
                 expression =
                   Assign("res", Add(Add(Number(38), Number(3)), Variable("y")))
            /\ pc = "done" =>
                 /\ DOMAIN environment = {"x", "y", "res"}
                 /\ environment["x"] = Number(3)
                 /\ environment["y"] = Number(1)
                 /\ environment["res"] = Number(42))
    /\ [](StartedWith(ProgAssignIf, <<>>) =>
            /\ pc # "panicked"
            /\ pc = "done" =>
                 /\ DOMAIN environment = {"x", "y"}
                 /\ environment["x"] = Boolean(FALSE)
                 /\ environment["y"] = Number(42))

\* run of the test program on store {y: 1} returned with res bound
C13_Witness ==
    /\ StartedWith(ProgAssignVars, [k \in {"y"} |-> Number(1)])
    /\ pc = "done"
    /\ "res" \in DOMAIN environment
    /\ environment["res"] = Number(42)

\* the first value of a, 3a, 9a, ... that is not less than n (a >= 1)
RECURSIVE FirstNotLess(_, _)
FirstNotLess(a, n) == IF a < n THEN FirstNotLess(3 * a, n) ELSE a

\* C14: started with store {x: a}, a >= 1, the loop
\* while (x < n) [ x = x * 3 ] never fails, run returns, and when it has
\* returned the current term is DoNothing and x is the first value of
\* a, 3a, 9a, ... not less than n; for a = 1 and n = 5 that is 9.
C14_LoopTerminates ==
    /\ [](\A n \in 0..MaxLimit, a \in 1..MaxStart :
            StartedWith(LoopTerm(n), [k \in {"x"} |-> Number(a)]) =>
                /\ pc # "panicked"
                /\ pc = "done" =>
                     /\ expression = [tag |-> "DoNothing"]
                     /\ environment = [k \in {"x"} |-> Number(FirstNotLess(a, n))])
    /\ [](StartedWith(LoopTerm(5), [k \in {"x"} |-> Number(1)]) /\ pc = "done" =>
            environment["x"] = Number(9))
    /\ (pc = "running") ~> (pc = "done")

\* the loop of the test, started with x = 1 and limit 5, returned with x = 9
\* after two iterations
C14_Witness ==
    /\ StartedWith(LoopTerm(5), [k \in {"x"} |-> Number(1)])
    /\ pc = "done"
    /\ environment["x"] = Number(9)
    /\ prev.expression.tag = "IfElse"
    /\ prev.expression.cond = Boolean(FALSE)

\* the integer the claim assigns to a Number or Boolean
IntOf(t) == IF t.tag = "Number" THEN t.val ELSE IF t.b THEN 1 ELSE 0

\* C15: value(Number(n)) = n, value(true) = 1, value(false) = 0, and value
\* fails for every other variant; so Add, Multiply and LessThan over two
\* terminal operands succeed when both are Numbers or Booleans and fail with
\* the type mismatch of value when either is DoNothing.
C15_ValueProjection ==
    /\ \A t \in {expression, prev.expression} :
         /\ value(t).ok <=> t.tag \in {"Number", "Boolean"}
         /\ t.tag = "Number" => value(t).val = t.val
         /\ t.tag = "Boolean" => value(t).val = (IF t.b THEN 1 ELSE 0)
         /\ ~value(t).ok => value(t).err = "type mismatch in value"
    /\ (/\ prev.stepped
        /\ prev.expression.tag \in BinaryTags
        /\ prev.expression.l.tag \in TerminalTags
        /\ prev.expression.r.tag \in TerminalTags) =>
         LET p == prev.expression
         IN  IF p.l.tag = "DoNothing" \/ p.r.tag = "DoNothing"
             THEN /\ pc = "panicked"
                  /\ err = "type mismatch in value"
                  /\ environment = prev.environment
             ELSE /\ pc # "panicked"
                  /\ p.tag = "Add" => expression = Number(IntOf(p.l) + IntOf(p.r))
                  /\ p.tag = "Multiply" => expression = Number(IntOf(p.l) * IntOf(p.r))
                  /\ p.tag = "LessThan" => expression = Boolean(IntOf(p.l) < IntOf(p.r))

\* Add(true, Number(1)) was reduced to Number(2)
C15_Witness ==
    /\ Returned
    /\ prev.expression = Add(Boolean(TRUE), Number(1))
    /\ expression = Number(2)

\* C16 (as stated): a call of reduce, or of Machine::step, on a Number, a
\* Boolean or DoNothing fails.
C16_TerminalAlwaysFails ==
    (prev.stepped /\ prev.expression.tag \in TerminalTags) => pc = "panicked"

\* C16 (amended): a call of reduce, or of Machine::step, on a Number or a
\* Boolean fails with "type mismatch in reduce"; on DoNothing it returns
\* DoNothing and leaves the store as it is.
C16_NumberBooleanFail ==
    /\ (prev.stepped /\ prev.expression.tag \in {"Number", "Boolean"}) =>
         /\ pc = "panicked"
         /\ err = "type mismatch in reduce"
    /\ (prev.stepped /\ prev.expression.tag = "DoNothing") =>
         /\ pc # "panicked"
         /\ expression = [tag |-> "DoNothing"]
         /\ environment = prev.environment

\* a direct step on a Boolean panicked in the wildcard arm
C16_Witness ==
    /\ Panicked
    /\ prev.expression.tag = "Boolean"
    /\ err = "type mismatch in reduce"

\* C17: a direct reduce of a terminal term returns the term unchanged or
\* fails, and never alters the store.
C17_TerminalUnchangedOrFails ==
    (prev.stepped /\ prev.expression.tag \in TerminalTags) =>
        /\ environment = prev.environment
        /\ pc = "panicked" \/ expression = prev.expression

\* a direct step on DoNothing returned DoNothing over a store that has keys
C17_Witness ==
    /\ Returned
    /\ prev.expression = DoNothing
    /\ expression = DoNothing
    /\ DOMAIN environment = {"x", "y"}

\* C19: during Machine::run no call of reduce, the recursive ones included,
\* ends in the wildcard arm ("type mismatch in reduce").
C19_CatchAllUnreachableInRun ==
    [][pc = "running" => err' # "type mismatch in reduce"]_vars

\* C20: when a step fails, no store write has happened during it: the store
\* and the current term of the machine are what they were before the step.
C20_FailedStepChangesNothing ==
    Panicked =>
        /\ environment = prev.environment
        /\ expression = prev.expression

\* a step failed after earlier steps had written the store, which is intact
C20_Witness ==
    /\ Panicked
    /\ environment # start.environment
    /\ environment = prev.environment
    /\ expression = prev.expression
    /\ err = "type mismatch in value"

\* the 13 configurations listed in the comment of test_while_loops
\* (lib.rs:591-603), each with the store it is reached with
WhileAddTrace ==
    LET W == ProgWhileAdd
        body == W.body
        X(n) == [k \in {"x"} |-> Number(n)]
        If(c) == IfElse(c, Sequence(body, W), DoNothing)
        C(t, n) == [expression |-> t, environment |-> X(n)]
    IN  << C(W, 1),
           C(If(LessThan(Variable("x"), Number(2))), 1),
           C(If(LessThan(Number(1), Number(2))), 1),
           C(If(Boolean(TRUE)), 1),
           C(Sequence(body, W), 1),
           C(Sequence(Assign("x", Add(Number(1), Number(1))), W), 1),
           C(Sequence(Assign("x", Number(2)), W), 1),
           C(Sequence(DoNothing, W), 2),
           C(W, 2),
           C(If(LessThan(Variable("x"), Number(2))), 2),
           C(If(LessThan(Number(2), Number(2))), 2),
           C(If(Boolean(FALSE)), 2),
           C(DoNothing, 2) >>

\* C21: in a run started from a While, the term after IfElse(true,
\* Sequence(b, W), DoNothing) is Sequence(b, W), and the term after
\* Sequence(DoNothing, W) is the While the machine was started with.  For
\* store {x: 1} and while (x < 2) [ x = x + 1 ] the configurations follow
\* the 13 of the test comment in order (a direct step on the 13th leaves it
\* as it is), and run returns at the 13th, DoNothing with x = 2.
C21_LoopReturnsToLoopTerm ==
    /\ (/\ start.expression.tag = "While"
        /\ Returned
        /\ prev.expression.tag = "IfElse"
        /\ prev.expression.cond = Boolean(TRUE)
        /\ prev.expression.cons.tag = "Sequence") =>
         expression = Sequence(prev.expression.cons.first, start.expression)
    /\ (/\ start.expression.tag = "While"
        /\ Returned
        /\ prev.expression.tag = "Sequence"
        /\ prev.expression.first = DoNothing) =>
         /\ prev.expression.second = start.expression
         /\ expression = start.expression
    /\ StartedWith(ProgWhileAdd, [k \in {"x"} |-> Number(1)]) =>
         /\ pc # "panicked"
         /\ \E i \in 1..13 :
              /\ expression = WhileAddTrace[i].expression
              /\ environment = WhileAddTrace[i].environment
              /\ prev.stepped <=> i > 1
              /\ i > 1 =>
                   LET j == IF i = 13 /\ prev.expression = DoNothing THEN 13 ELSE i - 1
                   IN  /\ prev.expression = WhileAddTrace[j].expression
                       /\ prev.environment = WhileAddTrace[j].environment
              /\ pc = "done" => i = 13

\* the first iteration of the test loop is over: the machine holds the
\* original While again, now with x = 2
C21_Witness ==
    /\ StartedWith(ProgWhileAdd, [k \in {"x"} |-> Number(1)])
    /\ prev.stepped
    /\ prev.expression = Sequence(DoNothing, ProgWhileAdd)
    /\ expression = ProgWhileAdd
    /\ environment["x"] = Number(2)

\* the three terms of the endless loop while (true) [ do-nothing ]
Forever == While(Boolean(TRUE), DoNothing)

ForeverIf == IfElse(Boolean(TRUE), Sequence(DoNothing, Forever), DoNothing)

ForeverSeq == Sequence(DoNothing, Forever)

\* C22: started with While(true, DoNothing) and any store, the machine never
\* holds a terminal term and never fails, run never returns, the store stays
\* what it was, and the term goes round While, IfElse(true, Sequence(
\* DoNothing, While), DoNothing), Sequence(DoNothing, While) for ever.
C22_DivergesInCycle ==
    /\ [](start.expression = Forever =>
            /\ pc \notin {"done", "panicked"}
            /\ expression.tag \notin TerminalTags
            /\ expression \in {Forever, ForeverIf, ForeverSeq}
            /\ environment = start.environment)
    /\ [][ (start.expression = Forever /\ StepTaken) =>
             /\ expression = Forever => expression' = ForeverIf
             /\ expression = ForeverIf => expression' = ForeverSeq
             /\ expression = ForeverSeq => expression' = Forever ]_vars
    /\ (start.expression = Forever /\ pc = "running" /\ expression = Forever)
          ~> (expression = ForeverIf)
    /\ (start.expression = Forever /\ pc = "running" /\ expression = ForeverIf)
          ~> (expression = ForeverSeq)
    /\ (start.expression = Forever /\ pc = "running" /\ expression = ForeverSeq)
          ~> (expression = Forever)

\* inside run the endless loop has come round to the While again, over a
\* store that has keys
C22_Witness ==
    /\ start.expression = Forever
    /\ pc = "running"
    /\ prev.stepped
    /\ prev.expression = ForeverSeq
    /\ expression = Forever
    /\ DOMAIN environment = {"x", "y"}

\* the term contains no While node
RECURSIVE WhileFree(_)
WhileFree(e) ==
    CASE e.tag = "While" -> FALSE
      [] e.tag \in BinaryTags -> WhileFree(e.l) /\ WhileFree(e.r)
      [] e.tag = "Assign" -> WhileFree(e.expr)
      [] e.tag = "Sequence" -> WhileFree(e.first) /\ WhileFree(e.second)
      [] e.tag = "IfElse" -> WhileFree(e.cond) /\ WhileFree(e.cons) /\ WhileFree(e.alt)
      [] OTHER -> TRUE

\* the number of nodes of a term, a Variable counting for two
RECURSIVE Size(_)
Size(e) ==
    CASE e.tag \in BinaryTags -> 1 + Size(e.l) + Size(e.r)
      [] e.tag = "Variable" -> 2
      [] e.tag = "Assign" -> 1 + Size(e.expr)
      [] e.tag = "Sequence" -> 1 + Size(e.first) + Size(e.second)
      [] e.tag = "IfElse" -> 1 + Size(e.cond) + Size(e.cons) + Size(e.alt)
      [] e.tag = "While" -> 1 + Size(e.cond) + Size(e.body)
      [] OTHER -> 1

\* C23: started with a term without While and a store of terminal values,
\* run ends: it returns or a step panics.  Every step that returns from a
\* reducible While-free term yields a strictly smaller While-free term, so
\* there is no infinite run.
C23_WhileFreeHalts ==
    /\ (pc = "running" /\ WhileFree(start.expression)) ~> (pc \in {"done", "panicked"})
    /\ [][ (/\ StepTaken
            /\ pc' # "panicked"
            /\ expression.tag \notin TerminalTags
            /\ WhileFree(expression)) =>
             /\ WhileFree(expression')
             /\ Size(expression') < Size(expression) ]_vars

\* run of the While-free test program x = false; if (x) ... returned
C23_Witness ==
    /\ start.expression = ProgAssignIf
    /\ WhileFree(start.expression)
    /\ pc = "done"
    /\ expression = DoNothing
    /\ environment["y"] = Number(42)

====
